---- MODULE Spec2Model ----
(***************************************************************************)
(* A model of nerfstudio/data/dataparsers/scannet_dataparser.py:           *)
(* ScanNet._generate_dataparser_outputs and ScanNet._load_3D_points.       *)
(*                                                                         *)
(* One call of _generate_dataparser_outputs is a run of the program        *)
(* counter pc through the statements of the method; the scene directory    *)
(* and the configuration are fixed at construction and calls with          *)
(* different split arguments follow each other.                            *)
(*                                                                         *)
(* Numbers: the floats of the source are modelled as exact rationals       *)
(* <<numerator, denominator>>.  math.ceil and np.linspace(dtype=int) are   *)
(* computed on exact rationals; for the sizes explored here (fewer than 30 *)
(* frames, fraction denominators up to 11) the float64 computation of the  *)
(* source gives the same integers.  NaN poses and the center_method        *)
(* "focus" (camera_utils.focus_of_attention) are outside the model.        *)
(***************************************************************************)
EXTENDS Integers, Sequences, FiniteSets, TLC

\* ------------------------------------------------------------------------
\* Bounds of the explored inputs
\* ------------------------------------------------------------------------
\* small scenes: up to MaxFrames files per directory, every pose file drawn
\* from PoseCatalog
MaxFrames == 3
\* file k of a small scene is named <k * IdStride>.<ext>
IdStride == 5
\* sequential scenes: files 0..N-1 for N up to MaxSeqFrames, all poses finite
MaxSeqFrames == 11
\* train_split_fraction ranges over p/q, 1 <= p <= q <= MaxDen
MaxDen == 10

\* ------------------------------------------------------------------------
\* Exact rationals <<n, d>>, d > 0, in lowest terms
\* ------------------------------------------------------------------------
Abs(x) == IF x < 0 THEN -x ELSE x

RECURSIVE Gcd(_, _)
Gcd(a, b) == IF b = 0 THEN a ELSE Gcd(b, a % b)

Rat(n, d) ==
    LET s == IF d < 0 THEN -1 ELSE 1
        g == Gcd(Abs(n), Abs(d))
    IN  <<(s * n) \div g, (s * d) \div g>>

RInt(n)    == <<n, 1>>
RAdd(a, b) == Rat(a[1] * b[2] + b[1] * a[2], a[2] * b[2])
RNeg(a)    == <<-a[1], a[2]>>
RMul(a, b) == Rat(a[1] * b[1], a[2] * b[2])
RDiv(a, b) == Rat(a[1] * b[2], a[2] * b[1])
RAbs(a)    == <<Abs(a[1]), a[2]>>
RLeq(a, b) == a[1] * b[2] <= b[1] * a[2]
RMax(a, b) == IF RLeq(a, b) THEN b ELSE a
RFloor(a)  == a[1] \div a[2]
\* a rounding that drops the fractional part
CeilAsFloor(a) == a[1] \div a[2]

\* math.ceil
Ceil(a)    == -((-a[1]) \div a[2])

RECURSIVE RSum(_)
RSum(s) == IF s = <<>> THEN RInt(0) ELSE RAdd(Head(s), RSum(Tail(s)))

RECURSIVE RMaxSeq(_)
RMaxSeq(s) == IF Len(s) = 1 THEN s[1] ELSE RMax(s[1], RMaxSeq(Tail(s)))

\* ------------------------------------------------------------------------
\* File names: sequences of characters, e.g. <<"1","0",".","j","p","g">>
\* ------------------------------------------------------------------------
DigitChars == <<"0", "1", "2", "3", "4", "5", "6", "7", "8", "9">>

RECURSIVE Digits(_)
Digits(n) ==
    IF n < 10 THEN <<DigitChars[n + 1]>>
    ELSE Append(Digits(n \div 10), DigitChars[(n % 10) + 1])

FileName(id, ext) == Digits(id) \o <<".">> \o ext

\* x.name.split(".")[0]
RECURSIVE Stem(_)
Stem(name) ==
    IF name = <<>> \/ Head(name) = "." THEN <<>>
    ELSE <<Head(name)>> \o Stem(Tail(name))

\* int(...) of a string of decimal digits
DigitVal(c) == CHOOSE v \in 0..9 : DigitChars[v + 1] = c

RECURSIVE ParseInt(_)
ParseInt(s) ==
    IF Len(s) = 1 THEN DigitVal(s[1])
    ELSE 10 * ParseInt(SubSeq(s, 1, Len(s) - 1)) + DigitVal(s[Len(s)])

\* key=lambda x: int(x.name.split(".")[0])
SortKey(name) == ParseInt(Stem(name))

\* the order of names as strings: what sorted() without the key would use
CharRank(c) ==
    IF c = "." THEN 0
    ELSE IF \E v \in 0..9 : DigitChars[v + 1] = c THEN 1 + DigitVal(c)
    ELSE 11

RECURSIVE LexLeq(_, _)
LexLeq(a, b) ==
    IF a = <<>> THEN TRUE
    ELSE IF b = <<>> THEN FALSE
    ELSE IF CharRank(Head(a)) # CharRank(Head(b)) THEN CharRank(Head(a)) < CharRank(Head(b))
    ELSE LexLeq(Tail(a), Tail(b))

RECURSIVE SortedLex(_)
SortedLex(names) ==
    IF names = {} THEN <<>>
    ELSE LET first == CHOOSE x \in names : \A y \in names : LexLeq(x, y)
         IN  <<first>> \o SortedLex(names \ {first})

\* list(sorted(dir.iterdir(), key=lambda x: int(x.name.split(".")[0])))
RECURSIVE Sorted(_)
Sorted(names) ==
    IF names = {} THEN <<>>
    ELSE LET first == CHOOSE x \in names : \A y \in names : SortKey(x) <= SortKey(y)
         IN  <<first>> \o Sorted(names \ {first})

\* ------------------------------------------------------------------------
\* Matrices: sequences of rows
\* ------------------------------------------------------------------------
\* the value read from a pose file for "inf"; -Inf is "-inf"
Inf == 1000000

\* np.isinf on one component
IsInf(x) == x = Inf \/ x = -Inf

\* np.isinf(pose).any()
AnyInf(m) == \E r \in 1..Len(m) : \E c \in 1..Len(m[r]) : IsInf(m[r][c])

\* pose[:3, 1] *= -1 ; pose[:3, 2] *= -1   (columns counted from 0 in the source)
FlipAxes(m) ==
    [r \in 1..4 |-> [c \in 1..4 |->
        IF r <= 3 /\ c \in {2, 3} THEN -1 * m[r][c] ELSE m[r][c]]]

\* .astype(np.float32) of a finite integer matrix
ToFloat(m) == [r \in 1..Len(m) |-> [c \in 1..Len(m[r]) |-> RInt(m[r][c])]]

\* a @ b
MatMul(a, b) ==
    [r \in 1..Len(a) |-> [c \in 1..Len(b[1]) |->
        RSum([k \in 1..Len(b) |-> RMul(a[r][k], b[k][c])])]]

Transpose(m) == [c \in 1..Len(m[1]) |-> [r \in 1..Len(m) |-> m[r][c]]]

\* ------------------------------------------------------------------------
\* The files of a scene
\* ------------------------------------------------------------------------
PoseA   == << <<1, 0, 0, 2>>, <<0, 1, 0, 0>>, <<0, 0, 1, -4>>, <<0, 0, 0, 1>> >>
PoseB   == << <<0, -1, 0, -2>>, <<1, 0, 0, 6>>, <<0, 0, 1, 1>>, <<0, 0, 0, 1>> >>
\* an invalid pose file of the dataset: every component is -inf
PoseInf == [r \in 1..4 |-> [c \in 1..4 |-> -Inf]]

PoseCatalog == {PoseA, PoseB, PoseInf}

\* intrinsic/intrinsic_color.txt
KFile == << <<1170, 0, 648, 0>>, <<0, 1170, 484, 0>>, <<0, 0, 1, 0>>, <<0, 0, 0, 1>> >>

\* shape of the first colour image
ImageShape == <<968, 1296, 3>>

JPG == <<"j", "p", "g">>
PNG == <<"p", "n", "g">>
TXT == <<"t", "x", "t">>

\* a scene directory whose frames have the given ids and pose files
\* (contents: id -> 4x4 matrix); the three directories hold the same ids
SceneOf(ids, contents) ==
    [ color |-> {FileName(id, JPG) : id \in ids},
      depth |-> {FileName(id, PNG) : id \in ids},
      pose  |-> {FileName(id, TXT) : id \in ids},
      posefile |-> [nm \in {FileName(id, TXT) : id \in ids} |-> contents[SortKey(nm)]] ]

SmallScenes ==
    UNION { { SceneOf({k * IdStride : k \in 0..(n - 1)},
                      [id \in {k * IdStride : k \in 0..(n - 1)} |-> f[id \div IdStride]])
              : f \in [0..(n - 1) -> PoseCatalog] }
            : n \in 1..MaxFrames }

SeqScenes ==
    { SceneOf(0..(n - 1), [id \in 0..(n - 1) |-> IF id % 2 = 0 THEN PoseA ELSE PoseB])
      : n \in 1..MaxSeqFrames }

\* np.loadtxt(pose) of a file of the pose directory
LoadTxt(sc, name) == sc.posefile[name]

\* the point clouds o3d.io.read_point_cloud may return: no points, points with
\* colours in the unit interval, points without colours
EmptyCloud   == [points |-> <<>>, colors |-> <<>>]
ColourCloud  == [points |-> << <<2, 0, -4>>, <<1, 1, 1>> >>,
                 colors |-> << <<Rat(1, 2), RInt(0), RInt(1)>>,
                               <<Rat(1, 255), Rat(2, 3), Rat(254, 255)>> >>]
PlainCloud   == [points |-> << <<-2, 6, 1>>, <<0, 0, 0>>, <<2, 0, -4>> >>, colors |-> <<>>]
Clouds == {EmptyCloud, ColourCloud, PlainCloud}

\* ------------------------------------------------------------------------
\* ScanNetDataParserConfig
\* ------------------------------------------------------------------------
Fractions ==
    { Rat(x[1], x[2]) : x \in {y \in (1..MaxDen) \X (1..MaxDen) : y[1] <= y[2]} }

ConfigOf(sf, cm, auto, f, load, colour) ==
    [ scale_factor |-> sf, scene_scale |-> RInt(1), center_method |-> cm,
      auto_scale_poses |-> auto, train_split_fraction |-> f,
      depth_unit_scale_factor |-> Rat(1, 1000),
      load_3D_points |-> load, point_cloud_color |-> colour ]

SmallConfigs ==
    { ConfigOf(RInt(2), cm, auto, Rat(1, 2), load, colour) :
        cm \in {"poses", "none"}, auto \in BOOLEAN,
        load \in BOOLEAN, colour \in BOOLEAN }

SeqConfigs ==
    { ConfigOf(RInt(1), "poses", TRUE, f, TRUE, TRUE) : f \in Fractions }

Splits == {"train", "val", "test", "eval"}

\* ------------------------------------------------------------------------
\* The split (lines 110-117)
\* ------------------------------------------------------------------------
\* round to nearest, ties to even
RRound(a) ==
    LET fl == a[1] \div a[2]
        twice == 2 * (a[1] - fl * a[2])
    IN  IF twice < a[2] THEN fl
        ELSE IF twice > a[2] THEN fl + 1
        ELSE IF fl % 2 = 0 THEN fl ELSE fl + 1

\* the spacing with the values rounded to the nearest integer
LinspaceRounded(start, stop, num) ==
    [i \in 1..num |->
        IF num > 1 /\ i = num THEN stop
        ELSE IF num = 1 THEN start
        ELSE RRound(RAdd(RMul(RInt(i - 1), Rat(stop - start, num - 1)), RInt(start)))]

\* the spacing of endpoint=False: step (stop - start) / num, stop not included
LinspaceNoEndpoint(start, stop, num) ==
    [i \in 1..num |->
        RFloor(RAdd(RMul(RInt(i - 1), Rat(stop - start, num)), RInt(start)))]

\* np.linspace(start, stop, num, dtype=int): num values start + i * step with
\* step = (stop - start) / (num - 1), the last one set to stop, floored
Linspace(start, stop, num) ==
    [i \in 1..num |->
        IF num > 1 /\ i = num THEN stop
        ELSE IF num = 1 THEN start
        ELSE RFloor(RAdd(RMul(RInt(i - 1), Rat(stop - start, num - 1)), RInt(start)))]

\* np.arange(n)
Arange(n) == [i \in 1..n |-> i - 1]

Range(s) == {s[i] : i \in 1..Len(s)}

RECURSIVE Ascending(_)
Ascending(S) ==
    IF S = {} THEN <<>>
    ELSE LET m == CHOOSE x \in S : \A y \in S : x <= y
         IN  <<m>> \o Ascending(S \ {m})

\* np.setdiff1d(a, b): the sorted unique values of a that are not in b
SetDiff1d(a, b) == Ascending(Range(a) \ Range(b))

\* the first len(idx) entries instead of the entries at idx
TakeFirst(xs, idx) == [k \in 1..Len(idx) |-> xs[k]]

\* [xs[i] for i in idx]   (idx holds positions counted from 0)
Take(xs, idx) == [k \in 1..Len(idx) |-> xs[idx[k] + 1]]

\* ------------------------------------------------------------------------
\* camera_utils.auto_orient_and_center_poses(poses, method="none", center_method)
\* ------------------------------------------------------------------------
Mean(ps, r) ==
    RDiv(RSum([k \in 1..Len(ps) |-> ps[k][r][4]]), RInt(Len(ps)))

TranslationCenter(ps, center_method) ==
    IF center_method = "poses" THEN <<Mean(ps, 1), Mean(ps, 2), Mean(ps, 3)>>
    ELSE <<RInt(0), RInt(0), RInt(0)>>

\* the 4x4 transform: identity rotation, translation by minus the centre
CenterTransform(ps, center_method) ==
    LET c == TranslationCenter(ps, center_method)
    IN  [r \in 1..4 |-> [k \in 1..4 |->
            IF k = 4 /\ r <= 3 THEN RNeg(c[r])
            ELSE IF k = r THEN RInt(1) ELSE RInt(0)]]

\* ------------------------------------------------------------------------
\* Scaling (lines 136-141)
\* ------------------------------------------------------------------------
\* float(torch.max(torch.abs(poses[:, :3, 3])))
MaxAbsTranslation(ps) ==
    RMaxSeq([j \in 1..(3 * Len(ps)) |->
                RAbs(ps[((j - 1) \div 3) + 1][((j - 1) % 3) + 1][4])])

\* poses *= scale_factor: every component scaled
ScaleWholePose(ps, sf) ==
    [k \in 1..Len(ps) |-> [r \in 1..Len(ps[k]) |-> [c \in 1..4 |-> RMul(ps[k][r][c], sf)]]]

\* poses[:, :3, 3] *= scale_factor
ScaleTranslation(ps, sf) ==
    [k \in 1..Len(ps) |-> [r \in 1..Len(ps[k]) |-> [c \in 1..4 |->
        IF r <= 3 /\ c = 4 THEN RMul(ps[k][r][c], sf) ELSE ps[k][r][c]]]]

\* ------------------------------------------------------------------------
\* _load_3D_points (lines 209-235), given the cloud read from the .ply
\* ------------------------------------------------------------------------
\* torch.cat((points3D, torch.ones_like(points3D[..., :1])), -1)
Homogenize(pts) == [k \in 1..Len(pts) |-> <<RInt(pts[k][1]), RInt(pts[k][2]), RInt(pts[k][3]), RInt(1)>>]

\* (np.asarray(pcd.colors) * 255).astype(np.uint8)
ToUint8(cols) ==
    [k \in 1..Len(cols) |-> [c \in 1..3 |-> RFloor(RMul(cols[k][c], RInt(255))) % 256]]

\* the scale applied to the positions before the transform
TransformPointsScaleFirst(pts, transform, sf) ==
    MatMul([k \in 1..Len(pts) |->
               <<RMul(RInt(pts[k][1]), sf), RMul(RInt(pts[k][2]), sf),
                 RMul(RInt(pts[k][3]), sf), RInt(1)>>],
           Transpose(transform))

\* lines 215-226
TransformPoints(pts, transform, sf) ==
    LET moved == MatMul(Homogenize(pts), Transpose(transform))
    IN  [k \in 1..Len(moved) |-> [c \in 1..Len(moved[k]) |-> RMul(moved[k][c], sf)]]

\* the colours returned whatever points_color says
Load3DPointsAlwaysColour(cloud, transform, sf, points_color) ==
    IF Len(cloud.points) = 0 THEN [k \in {} |-> <<>>]
    ELSE [points3D_xyz |-> TransformPoints(cloud.points, transform, sf),
          points3D_rgb |-> ToUint8(cloud.colors)]

\* the returned dictionary, or the empty dictionary for None
Load3DPoints(cloud, transform, sf, points_color) ==
    IF Len(cloud.points) = 0 THEN [k \in {} |-> <<>>]
    ELSE IF points_color
         THEN [points3D_xyz |-> TransformPoints(cloud.points, transform, sf),
               points3D_rgb |-> ToUint8(cloud.colors)]
         ELSE [points3D_xyz |-> TransformPoints(cloud.points, transform, sf)]

\* ------------------------------------------------------------------------
\* State
\* ------------------------------------------------------------------------
VARIABLES
    scene,              \* the files under config.data
    config,             \* self.config
    pc,                 \* position in _generate_dataparser_outputs, "idle" between calls
    split,              \* the argument of the running (or last) call
    img_dir_sorted, depth_dir_sorted, pose_dir_sorted,
    shape,              \* first_img.shape
    K,
    frame,              \* position of the loop of line 94 in the zipped lists
    image_filenames, depth_filenames, intrinsics, poses,
    num_train_images, num_eval_images, i_train, i_eval, indices,
    transform_matrix, scale_factor,
    scene_box, cameras, metadata,
    pcd,                \* what o3d.io.read_point_cloud returned
    outcome,            \* "none", "running", "returned" or "raised"
    outputs,            \* the DataparserOutputs of the last call that returned
    error,              \* the exception of the last call that raised
    full,               \* history: the four lists as they were before line 144
    lastTrain           \* history: transform and scale returned by the last "train" call

inputs  == <<scene, config>>
listing == <<img_dir_sorted, depth_dir_sorted, pose_dir_sorted, shape, K>>
lists   == <<image_filenames, depth_filenames, intrinsics, poses>>
splitv  == <<num_train_images, num_eval_images, i_train, i_eval>>
normv   == <<transform_matrix, scale_factor>>
bundle  == <<scene_box, cameras, metadata>>
ends    == <<outcome, outputs, error>>

vars == <<scene, config, pc, split, img_dir_sorted, depth_dir_sorted, pose_dir_sorted,
          shape, K, frame, image_filenames, depth_filenames, intrinsics, poses,
          num_train_images, num_eval_images, i_train, i_eval, indices,
          transform_matrix, scale_factor, scene_box, cameras, metadata, pcd,
          outcome, outputs, error, full, lastTrain>>

NoError   == [type |-> "", msg |-> <<>>]
NoOutputs == [k \in {} |-> <<>>]
NoFull    == [image_filenames |-> <<>>, depth_filenames |-> <<>>,
              intrinsics |-> <<>>, poses |-> <<>>]
NoTrain   == [set |-> FALSE, transform |-> <<>>, scale |-> RInt(0)]

\* the locals of a call before their first assignment
FreshLocals ==
    /\ frame = 1
    /\ image_filenames = <<>> /\ depth_filenames = <<>>
    /\ intrinsics = <<>> /\ poses = <<>>
    /\ num_train_images = 0 /\ num_eval_images = 0
    /\ i_train = <<>> /\ i_eval = <<>> /\ indices = <<>>
    /\ transform_matrix = <<>> /\ scale_factor = RInt(0)
    /\ scene_box = <<>> /\ cameras = <<>> /\ metadata = NoOutputs
    /\ pcd = EmptyCloud
    /\ full = NoFull

\* a new call starts with fresh locals
ResetLocals ==
    /\ frame' = 1
    /\ image_filenames' = <<>> /\ depth_filenames' = <<>>
    /\ intrinsics' = <<>> /\ poses' = <<>>
    /\ num_train_images' = 0 /\ num_eval_images' = 0
    /\ i_train' = <<>> /\ i_eval' = <<>> /\ indices' = <<>>
    /\ transform_matrix' = <<>> /\ scale_factor' = RInt(0)
    /\ scene_box' = <<>> /\ cameras' = <<>> /\ metadata' = NoOutputs
    /\ pcd' = EmptyCloud
    /\ full' = NoFull

Init ==
    /\ \/ scene \in SmallScenes /\ config \in SmallConfigs
       \/ scene \in SeqScenes /\ config \in SeqConfigs
    /\ pc = "idle"
    /\ split = "train"
    /\ img_dir_sorted = <<>> /\ depth_dir_sorted = <<>> /\ pose_dir_sorted = <<>>
    /\ shape = <<>> /\ K = <<>>
    /\ FreshLocals
    /\ outcome = "none" /\ outputs = NoOutputs /\ error = NoError
    /\ lastTrain = NoTrain

\* ------------------------------------------------------------------------
\* _generate_dataparser_outputs(split)
\* ------------------------------------------------------------------------
\* lines 79-93: the sorted listings, the first image, the intrinsics
Call(s) ==
    /\ pc = "idle"
    /\ split' = s
    /\ img_dir_sorted' = Sorted(scene.color)
    /\ depth_dir_sorted' = Sorted(scene.depth)
    /\ pose_dir_sorted' = Sorted(scene.pose)
    /\ shape' = ImageShape
    /\ K' = KFile
    /\ ResetLocals
    /\ outcome' = "running" /\ outputs' = NoOutputs /\ error' = NoError
    /\ pc' = "loop"
    /\ UNCHANGED <<inputs, lastTrain>>

Min(a, b) == IF a <= b THEN a ELSE b

\* zip(img_dir_sorted, depth_dir_sorted, pose_dir_sorted) stops with the shortest
ZipLen == Min(Len(img_dir_sorted), Min(Len(depth_dir_sorted), Len(pose_dir_sorted)))

\* lines 94-107: one iteration of the loop
LoadFrame ==
    /\ pc = "loop"
    /\ frame <= ZipLen
    /\ LET pose == FlipAxes(LoadTxt(scene, pose_dir_sorted[frame]))
       IN  IF AnyInf(pose)
           THEN UNCHANGED lists
           ELSE /\ poses' = Append(poses, pose)
                /\ intrinsics' = Append(intrinsics, K)
                /\ image_filenames' = Append(image_filenames, img_dir_sorted[frame])
                /\ depth_filenames' = Append(depth_filenames, depth_dir_sorted[frame])
    /\ frame' = frame + 1
    /\ UNCHANGED <<inputs, pc, split, listing, splitv, indices, normv, bundle, pcd,
                   ends, full, lastTrain>>

\* lines 110-118
ComputeSplit ==
    /\ pc = "loop"
    /\ frame > ZipLen
    /\ LET num_images == Len(image_filenames)
           n_train == Ceil(RMul(RInt(num_images), config.train_split_fraction))
           i_all == Arange(num_images)
           train == Linspace(0, num_images - 1, n_train)
           eval == SetDiff1d(i_all, train)
       IN  /\ num_train_images' = n_train
           /\ num_eval_images' = num_images - n_train
           /\ i_train' = train
           /\ i_eval' = eval
           /\ IF Len(eval) = num_images - n_train
              THEN pc' = "select" /\ UNCHANGED ends
              ELSE /\ pc' = "idle"
                   /\ outcome' = "raised"
                   /\ error' = [type |-> "AssertionError", msg |-> <<>>]
                   /\ UNCHANGED outputs
    /\ UNCHANGED <<inputs, split, listing, frame, lists, indices, normv, bundle, pcd,
                   full, lastTrain>>

\* the branches of lines 119-122 exchanged
IndicesForSwapped(s, train, eval) == IF s = "train" THEN eval ELSE train

\* lines 119-122, for a split the branches accept
IndicesFor(s, train, eval) == IF s = "train" THEN train ELSE eval

\* lines 119-122
SelectIndices ==
    /\ pc = "select"
    /\ split \in {"train", "val", "test"}
    /\ indices' = IndicesFor(split, i_train, i_eval)
    /\ pc' = "stack"
    /\ UNCHANGED <<inputs, split, listing, frame, lists, splitv, normv, bundle, pcd,
                   ends, full, lastTrain>>

\* lines 123-124
RaiseUnknownSplit ==
    /\ pc = "select"
    /\ split \notin {"train", "val", "test"}
    /\ pc' = "idle"
    /\ outcome' = "raised"
    /\ error' = [type |-> "ValueError", msg |-> <<"Unknown dataparser split ", split>>]
    /\ UNCHANGED <<inputs, split, listing, frame, lists, splitv, indices, normv, bundle,
                   pcd, outputs, full, lastTrain>>

\* lines 126-127: np.stack of an empty list raises
StackPoses ==
    /\ pc = "stack"
    /\ IF Len(poses) = 0
       THEN /\ pc' = "idle"
            /\ outcome' = "raised"
            /\ error' = [type |-> "ValueError", msg |-> <<"need at least one array to stack">>]
            /\ UNCHANGED <<lists, outputs>>
       ELSE /\ poses' = [j \in 1..Len(poses) |-> ToFloat(poses[j])]
            /\ intrinsics' = [j \in 1..Len(intrinsics) |-> ToFloat(intrinsics[j])]
            /\ pc' = "orient"
            /\ UNCHANGED <<image_filenames, depth_filenames, ends>>
    /\ UNCHANGED <<inputs, split, listing, frame, splitv, indices, normv, bundle, pcd,
                   full, lastTrain>>

\* the transform computed from the poses of the selected split only
AutoOrientSelected ==
    /\ pc = "orient"
    /\ LET chosen == IF Len(indices) > 0 THEN Take(poses, indices) ELSE poses
           t == CenterTransform(chosen, config.center_method)
       IN  /\ transform_matrix' = t
           /\ poses' = [j \in 1..Len(poses) |-> MatMul(t, poses[j])]
    /\ pc' = "scale"
    /\ UNCHANGED <<inputs, split, listing, frame, image_filenames, depth_filenames,
                   intrinsics, splitv, indices, scale_factor, bundle, pcd, ends, full,
                   lastTrain>>

\* lines 129-133
AutoOrient ==
    /\ pc = "orient"
    /\ LET t == CenterTransform(poses, config.center_method)
       IN  /\ transform_matrix' = t
           /\ poses' = [j \in 1..Len(poses) |-> MatMul(t, poses[j])]
    /\ pc' = "scale"
    /\ UNCHANGED <<inputs, split, listing, frame, image_filenames, depth_filenames,
                   intrinsics, splitv, indices, scale_factor, bundle, pcd, ends, full,
                   lastTrain>>

\* scale_factor after lines 136-139
ScaleFactor(ps, cfg) ==
    RMul(IF cfg.auto_scale_poses THEN RDiv(RInt(1), MaxAbsTranslation(ps)) ELSE RInt(1),
         cfg.scale_factor)

\* lines 136-141: the division of line 138 raises when the maximum is 0.0
ScalePoses ==
    /\ pc = "scale"
    /\ IF config.auto_scale_poses /\ MaxAbsTranslation(poses) = RInt(0)
       THEN /\ pc' = "idle"
            /\ outcome' = "raised"
            /\ error' = [type |-> "ZeroDivisionError", msg |-> <<"float division by zero">>]
            /\ UNCHANGED <<poses, scale_factor, outputs>>
       ELSE /\ scale_factor' = ScaleFactor(poses, config)
            /\ poses' = ScaleTranslation(poses, ScaleFactor(poses, config))
            /\ pc' = "gather"
            /\ UNCHANGED ends
    /\ UNCHANGED <<inputs, split, listing, frame, image_filenames, depth_filenames,
                   intrinsics, splitv, indices, transform_matrix, bundle, pcd, full,
                   lastTrain>>

\* lines 144-147
Gather ==
    /\ pc = "gather"
    /\ full' = [image_filenames |-> image_filenames, depth_filenames |-> depth_filenames,
                intrinsics |-> intrinsics, poses |-> poses]
    /\ image_filenames' = Take(image_filenames, indices)
    /\ depth_filenames' = IF Len(depth_filenames) > 0 THEN Take(depth_filenames, indices)
                          ELSE <<>>
    /\ intrinsics' = Take(intrinsics, indices)
    /\ poses' = Take(poses, indices)
    /\ pc' = "assemble"
    /\ UNCHANGED <<inputs, split, listing, frame, splitv, indices, normv, bundle, pcd,
                   ends, lastTrain>>

\* lines 151-156
SceneBoxOf(cfg) ==
    LET a == cfg.scene_scale
    IN  [aabb |-> << <<RNeg(a), RNeg(a), RNeg(a)>>, <<a, a, a>> >>]

\* lines 158-167
CamerasOf(intr, ps, shp) ==
    [ fx |-> [j \in 1..Len(intr) |-> intr[j][1][1]],
      fy |-> [j \in 1..Len(intr) |-> intr[j][2][2]],
      cx |-> [j \in 1..Len(intr) |-> intr[j][1][3]],
      cy |-> [j \in 1..Len(intr) |-> intr[j][2][3]],
      height |-> shp[1],
      width |-> shp[2],
      camera_to_worlds |-> [j \in 1..Len(ps) |-> SubSeq(ps[j], 1, 3)],
      camera_type |-> "PERSPECTIVE" ]

\* lines 169-172; is_none stands for the value None
MetadataOf(depths, cfg) ==
    [ depth_filenames |-> IF Len(depths) > 0 THEN [is_none |-> FALSE, list |-> depths]
                          ELSE [is_none |-> TRUE, list |-> <<>>],
      depth_unit_scale_factor |-> cfg.depth_unit_scale_factor ]

\* lines 151-172
Assemble ==
    /\ pc = "assemble"
    /\ scene_box' = SceneBoxOf(config)
    /\ cameras' = CamerasOf(intrinsics, poses, shape)
    /\ metadata' = MetadataOf(depth_filenames, config)
    /\ pc' = "points"
    /\ UNCHANGED <<inputs, split, listing, frame, lists, splitv, indices, normv, pcd,
                   ends, full, lastTrain>>

\* lines 174-179, with _load_3D_points
LoadPoints ==
    /\ pc = "points"
    /\ config.load_3D_points
    /\ \E cloud \in Clouds :
          /\ pcd' = cloud
          /\ metadata' = Load3DPoints(cloud, transform_matrix, scale_factor,
                                      config.point_cloud_color) @@ metadata
    /\ pc' = "return"
    /\ UNCHANGED <<inputs, split, listing, frame, lists, splitv, indices, normv,
                   scene_box, cameras, ends, full, lastTrain>>

\* line 174, load_3D_points disabled
SkipPoints ==
    /\ pc = "points"
    /\ ~config.load_3D_points
    /\ pc' = "return"
    /\ UNCHANGED <<inputs, split, listing, frame, lists, splitv, indices, normv, bundle,
                   pcd, ends, full, lastTrain>>

\* lines 181-189
OutputsOf(files, cams, box, sf, transform, meta) ==
    [ image_filenames |-> files, cameras |-> cams, scene_box |-> box,
      dataparser_scale |-> sf, dataparser_transform |-> transform, metadata |-> meta ]

Return ==
    /\ pc = "return"
    /\ outputs' = OutputsOf(image_filenames, cameras, scene_box, scale_factor,
                            transform_matrix, metadata)
    /\ outcome' = "returned"
    /\ lastTrain' = IF split = "train"
                    THEN [set |-> TRUE, transform |-> transform_matrix, scale |-> scale_factor]
                    ELSE lastTrain
    /\ pc' = "idle"
    /\ UNCHANGED <<inputs, split, listing, frame, lists, splitv, indices, normv, bundle,
                   pcd, error, full>>

Next ==
    \/ \E s \in Splits : Call(s)
    \/ LoadFrame
    \/ ComputeSplit
    \/ SelectIndices
    \/ RaiseUnknownSplit
    \/ StackPoses
    \/ AutoOrient
    \/ ScalePoses
    \/ Gather
    \/ Assemble
    \/ LoadPoints
    \/ SkipPoints
    \/ Return

Spec == Init /\ [][Next]_vars

\* ------------------------------------------------------------------------
\* The scene as the properties see it
\* ------------------------------------------------------------------------
SceneIds == {SortKey(nm) : nm \in scene.pose}

RawPose(id) == scene.posefile[FileName(id, TXT)]

\* the frames whose pose file has no infinite component, and their number
ValidIds == {id \in SceneIds : \A r \in 1..4 : \A c \in 1..4 : ~IsInf(RawPose(id)[r][c])}
NValid == Cardinality(ValidIds)

\* a set of ids as the sequence of its members in increasing order
RECURSIVE Increasing(_)
Increasing(ids) ==
    IF ids = {} THEN <<>>
    ELSE LET least == CHOOSE x \in ids : \A y \in ids : x <= y
         IN  <<least>> \o Increasing(ids \ {least})

\* the ids of the valid frames in their numeric order
ValidSeq == Increasing(ValidIds)

\* the split is computed and the four lists still hold every valid frame
SplitComputed == pc \in {"select", "stack", "orient", "scale", "gather"}

\* the least integer c with c >= n * f, for a fraction f = <<p, q>>
LeastAtLeast(n, f) ==
    CHOOSE c \in 0..n : c * f[2] >= n * f[1] /\ (c - 1) * f[2] < n * f[1]

\* ------------------------------------------------------------------------
\* Properties
\* ------------------------------------------------------------------------

\* C1: for N >= 1 valid frames and a fraction f in (0,1], i_train and i_eval
\* partition 0..N-1: they are disjoint, their union is every index, i_train has
\* ceil(N*f) distinct indices and i_eval has N - ceil(N*f), and the assertion
\* of line 118 never fails.
C1_SplitPartitions ==
    /\ error.type # "AssertionError"
    /\ (SplitComputed /\ Len(image_filenames) >= 1) =>
          LET N == Len(image_filenames)
              c == LeastAtLeast(N, config.train_split_fraction)
          IN  /\ Range(i_train) \cap Range(i_eval) = {}
              /\ Range(i_train) \cup Range(i_eval) = 0..(N - 1)
              /\ num_train_images = c
              /\ Len(i_train) = c /\ Cardinality(Range(i_train)) = c
              /\ Len(i_eval) = N - c /\ Cardinality(Range(i_eval)) = N - c
              /\ num_eval_images = N - c

C1_Witness ==
    /\ SplitComputed
    /\ Len(image_filenames) = 7
    /\ Len(i_train) = 5
    /\ Len(i_eval) = 2

\* the case of C5: ten valid frames with the ids 0..9 and train_split_fraction 0.9
C5_Case ==
    /\ SplitComputed
    /\ Len(image_filenames) = 10
    /\ {SortKey(image_filenames[k]) : k \in 1..Len(image_filenames)} = 0..9
    /\ config.train_split_fraction = Rat(9, 10)

\* C5 as stated: with 10 valid frames (ids 0..9) and train_split_fraction 0.9,
\* num_train is 9, the train indices are {0,1,2,3,4,6,7,8,9} and the eval
\* indices are {5}.
C5_AsStated ==
    C5_Case =>
        /\ num_train_images = 9
        /\ Range(i_train) = {0, 1, 2, 3, 4, 6, 7, 8, 9}
        /\ Range(i_eval) = {5}

\* C5 amended: with 10 valid frames (ids 0..9) and train_split_fraction 0.9,
\* num_train is 9, the train indices are 0,1,2,3,4,5,6,7,9 (the nine evenly
\* spaced values 0, 1.125, ..., 7.875, 9 floored) and the eval indices are {8}.
C5_FlooredSpacing ==
    C5_Case =>
        /\ num_train_images = 9
        /\ i_train = <<0, 1, 2, 3, 4, 5, 6, 7, 9>>
        /\ i_eval = <<8>>

C5_Witness == C5_Case /\ pc = "gather" /\ split = "test"

\* C9: with N >= 2 valid frames and ceil(N*f) >= 2, index 0 and index N-1 are
\* both train indices, so neither the first nor the last valid frame is in the
\* eval set.
C9_EndpointsInTrain ==
    (/\ SplitComputed
     /\ Len(image_filenames) >= 2
     /\ LeastAtLeast(Len(image_filenames), config.train_split_fraction) >= 2) =>
        LET N == Len(image_filenames)
        IN  /\ 0 \in Range(i_train) /\ (N - 1) \in Range(i_train)
            /\ 0 \notin Range(i_eval) /\ (N - 1) \notin Range(i_eval)

C9_Witness ==
    /\ SplitComputed
    /\ Len(image_filenames) = 5
    /\ Len(i_train) = 2
    /\ i_eval = <<1, 2, 3>>

\* the pose of a valid frame after lines 97-98: columns 1 and 2 of the upper
\* three rows negated
FlippedPose(id) ==
    [r \in 1..4 |-> [c \in 1..4 |->
        IF r <= 3 /\ c \in {2, 3} THEN 0 - RawPose(id)[r][c] ELSE RawPose(id)[r][c]]]

\* C3: in the loop a frame whose pose has an infinite component adds nothing
\* to the four lists and every other frame adds one entry to each: the lists
\* have equal length, entry k of each belongs to the same frame and the frames
\* are in the numeric order of their ids; after the loop they hold exactly the
\* valid frames.
C3_ListsInLockstep ==
    pc \in {"loop", "select", "stack"} =>
        LET all == Increasing(SceneIds)
            seen == {all[k] : k \in 1..(frame - 1)}
            done == Increasing(ValidIds \cap seen)
            n == Len(done)
        IN  /\ Len(image_filenames) = n /\ Len(depth_filenames) = n
            /\ Len(intrinsics) = n /\ Len(poses) = n
            /\ \A k \in 1..n :
                  /\ image_filenames[k] = FileName(done[k], JPG)
                  /\ depth_filenames[k] = FileName(done[k], PNG)
                  /\ intrinsics[k] = KFile
                  /\ poses[k] = FlippedPose(done[k])
            /\ (pc # "loop") => n = NValid

C3_Witness ==
    /\ pc = "select"
    /\ Cardinality(SceneIds) = 3
    /\ Len(poses) = 2
    /\ \E id \in ValidIds : id >= 10
    /\ \E id \in SceneIds \ ValidIds : id > 0 /\ id < 10

\* C4: "train" selects the train indices, "val" and "test" select the eval
\* indices, and any other split makes the call raise an error that names the
\* split, without an output bundle.
C4_SplitSelectsIndices ==
    /\ (pc \in {"stack", "orient", "scale", "gather", "assemble", "points", "return"}
        \/ outcome = "returned") =>
          /\ split \in {"train", "val", "test"}
          /\ (split = "train") => indices = i_train
          /\ (split \in {"val", "test"}) => indices = i_eval
    /\ (split \notin {"train", "val", "test"}) =>
          /\ pc \in {"idle", "loop", "select"}
          /\ (pc = "idle") =>
                /\ outcome = "raised"
                /\ error.type = "ValueError"
                /\ error.msg[Len(error.msg)] = split
                /\ DOMAIN outputs = {}

C4_Witness ==
    /\ pc = "idle"
    /\ outcome = "raised"
    /\ split = "eval"
    /\ error.type = "ValueError"
    /\ lastTrain.set
    /\ Len(i_train) >= 2 /\ Len(i_eval) >= 1

RECURSIVE SumOfOrigins(_, _)
SumOfOrigins(ids, r) ==
    IF ids = {} THEN 0
    ELSE LET id == CHOOSE x \in ids : TRUE
         IN  RawPose(id)[r][4] + SumOfOrigins(ids \ {id}, r)

\* C2: for one scene and configuration, a "train" call and a "val" or "test"
\* call return the same transform and the same scale factor; with the centre
\* method "poses" the transform moves the mean origin of all valid frames, not
\* of the selected ones, to zero.
C2_SameNormalization ==
    /\ (outcome = "returned" /\ split \in {"val", "test"} /\ lastTrain.set) =>
          /\ outputs.dataparser_transform = lastTrain.transform
          /\ outputs.dataparser_scale = lastTrain.scale
    /\ (outcome = "returned" /\ config.center_method = "poses") =>
          \A r \in 1..3 :
              RMul(RInt(NValid), outputs.dataparser_transform[r][4])
                  = RInt(0 - SumOfOrigins(ValidIds, r))

C2_Witness ==
    /\ outcome = "returned"
    /\ split = "val"
    /\ lastTrain.set
    /\ config.center_method = "poses"
    /\ config.auto_scale_poses
    /\ NValid = 2
    /\ indices = <<1>>

\* row r of transform t applied to the homogenized point v = <<x, y, z>>
Moved(t, v, r) ==
    RAdd(RAdd(RMul(t[r][1], RInt(v[1])), RMul(t[r][2], RInt(v[2]))),
         RAdd(RMul(t[r][3], RInt(v[3])), t[r][4]))

\* the origin in the pose file of a frame
RawOrigin(id) == <<RawPose(id)[1][4], RawPose(id)[2][4], RawPose(id)[3][4]>>

\* C6: when the points are loaded and the cloud is not empty, every returned
\* position is the returned scale times the returned transform applied to the
\* homogenized position (transform first, scale second), so a point lying at
\* the origin of a camera in the files lies at the origin of that camera in
\* the returned poses.
C6_PointsFollowPoses ==
    (outcome = "returned" /\ "points3D_xyz" \in DOMAIN outputs.metadata) =>
        LET t == outputs.dataparser_transform
            sf == outputs.dataparser_scale
            xyz == outputs.metadata.points3D_xyz
            c2w == outputs.cameras.camera_to_worlds
            valid == ValidSeq
        IN  /\ Len(pcd.points) > 0
            /\ Len(xyz) = Len(pcd.points)
            /\ \A k \in 1..Len(xyz) : \A r \in 1..3 :
                  xyz[k][r] = RMul(sf, Moved(t, pcd.points[k], r))
            /\ \A k \in 1..Len(xyz) : \A j \in 1..Len(c2w) :
                  (RawOrigin(valid[indices[j] + 1]) = pcd.points[k]) =>
                      \A r \in 1..3 : xyz[k][r] = c2w[j][r][4]

C6_Witness ==
    /\ outcome = "returned"
    /\ "points3D_xyz" \in DOMAIN outputs.metadata
    /\ outputs.dataparser_scale \notin {RInt(1), RInt(2)}
    /\ outputs.dataparser_transform[1][4] # RInt(0)
    /\ \E k \in 1..Len(pcd.points) : \E j \in 1..Len(indices) :
          RawOrigin(ValidSeq[indices[j] + 1]) = pcd.points[k]

\* C7: the point-cloud keys of the metadata depend on the load toggle, the
\* number of points and the colour toggle only: no point-cloud key for an
\* empty cloud or with loading disabled (and no error), points3D_xyz alone for
\* a non-empty cloud with colour disabled, points3D_xyz and points3D_rgb with
\* colour enabled; depth_filenames and depth_unit_scale_factor always.
C7_MetadataKeys ==
    /\ (outcome = "returned") =>
          DOMAIN outputs.metadata =
              {"depth_filenames", "depth_unit_scale_factor"}
              \cup (IF config.load_3D_points /\ Len(pcd.points) > 0
                    THEN {"points3D_xyz"} ELSE {})
              \cup (IF config.load_3D_points /\ Len(pcd.points) > 0
                       /\ config.point_cloud_color
                    THEN {"points3D_rgb"} ELSE {})
    /\ (pc = "return") =>
          /\ outcome = "running"
          /\ (Len(pcd.points) = 0) =>
                DOMAIN metadata = {"depth_filenames", "depth_unit_scale_factor"}

C7_Witness ==
    /\ outcome = "returned"
    /\ config.load_3D_points
    /\ ~config.point_cloud_color
    /\ Len(pcd.points) = 3
    /\ "points3D_rgb" \notin DOMAIN outputs.metadata

\* the largest member of a non-empty set of rationals
Largest(S) == CHOOSE x \in S : \A y \in S : RLeq(y, x)

\* C8: the returned scale factor is the configured scale_factor times 1/M with
\* auto_scale_poses, M the largest absolute translation component of the
\* transformed poses of all valid frames, and the configured scale_factor
\* alone without it; it multiplies the translation column of each pose only:
\* the rotation block and the last row stay as they were.
C8_ScaleOfTranslation ==
    (outcome = "returned") =>
        LET t == outputs.dataparser_transform
            sf == outputs.dataparser_scale
            valid == ValidSeq
            M == Largest({RAbs(Moved(t, RawOrigin(valid[j]), r)) :
                             j \in 1..Len(valid), r \in 1..3})
        IN  /\ config.auto_scale_poses => RMul(sf, M) = config.scale_factor
            /\ ~config.auto_scale_poses => sf = config.scale_factor
            /\ Len(full.poses) = Len(valid)
            /\ \A j \in 1..Len(valid) : \A r \in 1..4 : \A c \in 1..4 :
                  full.poses[j][r][c] =
                      IF r <= 3 /\ c = 4
                      THEN RMul(sf, Moved(t, RawOrigin(valid[j]), r))
                      ELSE RInt(FlippedPose(valid[j])[r][c])

C8_Witness ==
    /\ outcome = "returned"
    /\ split = "val"
    /\ config.auto_scale_poses
    /\ config.scale_factor = RInt(2)
    /\ config.center_method = "poses"
    /\ Len(indices) = 1
    /\ NValid = 3

\* what C10 says of everything but the depth filenames: the lists of the
\* bundle have the length of the selected indices, position k holds the valid
\* frame at the k-th selected index, the indices increase, and the pose at k
\* is the normalized and scaled pose of that frame in the full valid set
BundleFollowsIndices ==
    LET n == Len(indices)
        cams == outputs.cameras
        valid == ValidSeq
    IN  /\ Len(outputs.image_filenames) = n
        /\ Len(cams.fx) = n /\ Len(cams.fy) = n /\ Len(cams.cx) = n /\ Len(cams.cy) = n
        /\ Len(cams.camera_to_worlds) = n
        /\ \A k \in 1..(n - 1) : indices[k] < indices[k + 1]
        /\ \A k \in 1..n :
              /\ indices[k] + 1 \in 1..Len(valid)
              /\ outputs.image_filenames[k] = FileName(valid[indices[k] + 1], JPG)
              /\ cams.fx[k] = RInt(KFile[1][1]) /\ cams.fy[k] = RInt(KFile[2][2])
              /\ cams.cx[k] = RInt(KFile[1][3]) /\ cams.cy[k] = RInt(KFile[2][3])
              /\ cams.camera_to_worlds[k] =
                    [r \in 1..3 |-> full.poses[indices[k] + 1][r]]

\* the depth filenames of the metadata are a list that follows the indices
DepthFollowsIndices ==
    LET d == outputs.metadata.depth_filenames
    IN  /\ ~d.is_none
        /\ Len(d.list) = Len(indices)
        /\ \A k \in 1..Len(indices) :
              d.list[k] = FileName(ValidSeq[indices[k] + 1], PNG)

\* C10 as stated: in the returned bundle the image paths, the depth filenames
\* of the metadata, the intrinsics and the poses all have the length of the
\* selected index set and position k of each is the frame at the k-th selected
\* index.
C10_AsStated ==
    (outcome = "returned") => (BundleFollowsIndices /\ DepthFollowsIndices)

\* C10 amended: as stated when at least one index is selected; when none is
\* (an eval split with every valid frame in train) the image paths, intrinsics
\* and poses are empty and the depth filenames of the metadata are None.
C10_BundleAligned ==
    (outcome = "returned") =>
        /\ BundleFollowsIndices
        /\ IF Len(indices) > 0 THEN DepthFollowsIndices
           ELSE outputs.metadata.depth_filenames.is_none

C10_Witness ==
    /\ outcome = "returned"
    /\ split = "test"
    /\ Cardinality(SceneIds) = 3
    /\ NValid = 2
    /\ 0 \notin ValidIds
    /\ indices = <<1>>
    /\ config.center_method = "poses"

====
